---- MODULE Spec2Model ----
(***************************************************************************)
(* A model of the document retrieval and grounded-answer pipeline:         *)
(*   - the chunker           (rag/indexing.py, DocumentIndexer.chunk_text) *)
(*   - the vector index      (rag/indexing.py, rag/rag.py)                 *)
(*   - the audit-event path  (rag/kafka_producer.py, kafka_consumer/)      *)
(*   - the ticker extraction (rag/ticker_utils.py)                         *)
(*   - the request handlers  (rag/rag_app.py, /api/query and /api/answer)  *)
(*   - the re-indexing script (rag/indexing.py, __main__)                  *)
(* Python offsets are kept 0-based; a text is a sequence of characters,    *)
(* so text[i] of the source is text[i + 1] here.                           *)
(***************************************************************************)
EXTENDS Integers, Sequences, FiniteSets, TLC

\* ------------------------------------------------------------------ bounds
MaxTextLen == 6
MaxChunkSize == 4
\* the SERIAL ids the vector index may hand out, and the largest top_k asked
MaxId == 3
MaxTopK == 2
\* the exchanges the answer service publishes an audit event for
MaxEvents == 2
\* the words of a question given to the ticker extraction
MaxWords == 2

\* ------------------------------------------------------- program constants
\* chunk_text's defaults, which index_pdf_document uses
DefaultChunkSize == 250
DefaultOverlap == 25

\* --------------------------------------------------------------- variables
VARIABLES
    \* chunk_text's locals (indexing.py 120-155)
    text, chunk_size, overlap, start_index, chunks, cpc, iterations, retracted,
    \* the table document_embeddings and its SERIAL sequence (indexing.py 52-63)
    document_embeddings, next_id,
    \* the directory pdf_storage/<stock_id>/<doc_name> (indexing.py 241-265)
    pdf_storage,
    \* what the last call of the indexer or the retriever returned
    ret,
    \* the run of the re-indexing script (indexing.py 433-460): its place, the
    \* rows its DELETE removed and the rows of its open INSERT transaction
    reindex,
    \* the bus: the records of the topic chat_messages, the events published so
    \* far, and ChatMessageProducer.producer (kafka_producer.py 26)
    topic, published, producer,
    \* the consumer group's position in the topic and its committed offset
    position, committed,
    \* the table chat_history and ChatHistoryWriter.connection (db_writer.py)
    chat_history, connection,
    \* consumer_app.py: the flag running, main's place, the record the for loop
    \* holds, message_count, and the calls of write_chat_message made so far
    running, kpc, message, message_count, writes,
    \* kafka_producer.py: the place of the constructor (in _connect or done),
    \* the attempts _connect has made, the calls of producer.send made, and
    \* what the last publish_chat_message returned
    ppc, connect_attempts, send_attempts, publish_result,
    \* rag_app.py: the question of the request, the ticker detected in it, and
    \* the response of the handler
    question, detected_ticker, response

chunkVars == <<text, chunk_size, overlap, start_index, chunks, cpc, iterations, retracted>>
indexVars == <<document_embeddings, next_id, pdf_storage, ret, reindex>>
busVars == <<topic, published, producer>>
consumerVars == <<position, committed, chat_history, connection,
                  running, kpc, message, message_count, writes>>
publisherVars == <<ppc, connect_attempts, send_attempts, publish_result>>
apiVars == <<question, detected_ticker, response>>
vars == <<chunkVars, indexVars, busVars, consumerVars, publisherVars, apiVars>>

\* ----------------------------------------------------------------- helpers
SetMax(S) == CHOOSE x \in S : \A y \in S : y <= x

Chars == {"a", " "}

Texts == UNION {[1..n -> Chars] : n \in 0..MaxTextLen}

\* text[lo:hi] of Python, for 0 <= lo <= hi <= len(text)
Slice(t, lo, hi) == SubSeq(t, lo + 1, hi)

\* ceil(a / b) for a >= 0, b >= 1
CeilDiv(a, b) == (a + b - 1) \div b

\* Python's None: where a string, a stock id or a text is expected
None == "None"
NoStockId == 0
NoText == <<None>>
\* the re-indexing script has not been started
NoReindex == [pc |-> "idle", file |-> None, old |-> {}, tx |-> <<>>]

\* the stocks and the document names of the modelled calls
StockIds == {1, 2}
DocNames == {"A.pdf", "B.pdf"}
\* the (stock_id, doc_name) pairs documents are indexed and deleted under
Documents == {<<1, "A.pdf">>, <<2, "B.pdf">>}

Range(f) == {f[i] : i \in DOMAIN f}

\* ================================================================ chunker
\* text.rfind(' ', start, end): the highest index in [start, end) holding a
\* space, or -1
rfind(t, start, end) ==
    LET hits == {i \in start..(end - 1) : i < Len(t) /\ t[i + 1] = " "}
    IN IF hits = {} THEN -1 ELSE SetMax(hits)

\* lines 135-137: the window's right edge before retraction
WindowEdge(t, size, start) ==
    IF start + size > Len(t) THEN Len(t) ELSE start + size

\* Retracts with the guard of line 142 off by one (last_space >= start_index)
Retracts_AtStart(t, size, start) ==
    /\ WindowEdge(t, size, start) < Len(t)
    /\ rfind(t, start, WindowEdge(t, size, start)) >= start

\* whether lines 140-143 retract the window starting at start
Retracts(t, size, start) ==
    /\ WindowEdge(t, size, start) < Len(t)
    /\ rfind(t, start, WindowEdge(t, size, start)) > start

\* lines 135-143: end_index of the window that starts at start
WindowEnd(t, size, start) ==
    IF Retracts(t, size, start)
    THEN rfind(t, start, WindowEdge(t, size, start))
    ELSE WindowEdge(t, size, start)

\* lines 151-153 replaced by a stride back from the end: start = end - overlap
NextStart_FromEnd(start, end, size, ovl) ==
    end - ovl

\* NextStart without the clamp of lines 152-153
NextStart_NoClamp(start, end, size, ovl) ==
    start + size - ovl

\* lines 151-153: the next start_index
NextStart(start, end, size, ovl) ==
    IF start + size - ovl >= end THEN end ELSE start + size - ovl

\* lines 145-149: the chunk emitted for the window [start, end)
MakeChunk(t, start, end) ==
    [text |-> Slice(t, start, end), start_char |-> start, end_char |-> end]

\* the whole of chunk_text, as the index pipeline calls it
RECURSIVE ChunkFrom(_, _, _, _)
ChunkFrom(t, size, ovl, start) ==
    IF start >= Len(t)
    THEN <<>>
    ELSE LET end == WindowEnd(t, size, start)
         IN <<MakeChunk(t, start, end)>>
                \o ChunkFrom(t, size, ovl, NextStart(start, end, size, ovl))

chunk_text(t, size, ovl) == ChunkFrom(t, size, ovl, 0)

\* the chunker and the index before any call
IdleChunker ==
    /\ text = <<>>
    /\ chunk_size = DefaultChunkSize
    /\ overlap = DefaultOverlap
    /\ start_index = 0
    /\ chunks = <<>>
    /\ cpc = "idle"
    /\ iterations = 0
    /\ retracted = FALSE

IdleIndex ==
    /\ document_embeddings = {}
    /\ next_id = 1
    /\ pdf_storage = [k \in Documents |-> None]
    /\ ret = [op |-> "none"]
    /\ reindex = NoReindex

\* the audit-event path before the services start
IdleEvents ==
    /\ topic = <<>>
    /\ published = 0
    /\ producer = None
    /\ position = 0
    /\ committed = 0
    /\ chat_history = <<>>
    /\ connection = "open"
    /\ running = TRUE
    /\ kpc = "idle"
    /\ message = [offset |-> 0 - 1, event |-> 0]
    /\ message_count = 0
    /\ writes = <<>>
    /\ ppc = "idle"
    /\ connect_attempts = 0
    /\ send_attempts = 0
    /\ publish_result = FALSE

\* the answer service before a request
IdleApi ==
    /\ question = <<>>
    /\ detected_ticker = <<>>
    /\ response = [op |-> "none"]

\* --- the loop of chunk_text, one iteration per step
InitChunker ==
    /\ IdleIndex
    /\ IdleEvents
    /\ IdleApi
    /\ text \in Texts
    /\ chunk_size \in 1..MaxChunkSize
    /\ overlap \in 0..(chunk_size - 1)
    /\ start_index = 0
    /\ chunks = <<>>
    /\ cpc = "loop"
    /\ iterations = 0
    /\ retracted = FALSE

\* one pass through the while body (lines 134-153)
ChunkIterate ==
    /\ cpc = "loop"
    /\ start_index < Len(text)
    /\ LET end_index == WindowEnd(text, chunk_size, start_index)
       IN /\ chunks' = Append(chunks, MakeChunk(text, start_index, end_index))
          /\ start_index' = NextStart(start_index, end_index, chunk_size, overlap)
    /\ retracted' = (retracted \/ Retracts(text, chunk_size, start_index))
    /\ iterations' = iterations + 1
    /\ UNCHANGED <<text, chunk_size, overlap, cpc>>
    /\ UNCHANGED <<indexVars, busVars, consumerVars, publisherVars, apiVars>>

\* the while condition fails: return chunks (line 155)
ChunkReturn ==
    /\ cpc = "loop"
    /\ start_index >= Len(text)
    /\ cpc' = "done"
    /\ UNCHANGED <<text, chunk_size, overlap, start_index, chunks, iterations, retracted>>
    /\ UNCHANGED <<indexVars, busVars, consumerVars, publisherVars, apiVars>>

NextChunker ==
    \/ ChunkIterate
    \/ ChunkReturn

SpecChunker == InitChunker /\ [][NextChunker]_vars

\* chunk_text is straight-line code in a loop: each pass and the return run
SpecChunkerLive == SpecChunker /\ WF_vars(NextChunker)

\* ------------------------------------------------------- chunker claims
\* C5: for every text, max_len m >= 1 and overlap 0 <= o < m, the chunks that
\* chunk_text returns cover [0, len(text)) without gaps: the first starts at
\* 0, every later one starts at or before the end_char of the one before it,
\* the last ends at len(text), and consecutive chunks overlap by at most o.
C5_CoverageNoGaps ==
    cpc = "done" =>
        /\ \A p \in 0..(Len(text) - 1) :
              \E i \in 1..Len(chunks) :
                  chunks[i].start_char <= p /\ p < chunks[i].end_char
        /\ Len(text) > 0 =>
              /\ Len(chunks) > 0
              /\ chunks[1].start_char = 0
              /\ chunks[Len(chunks)].end_char = Len(text)
        /\ \A i \in 2..Len(chunks) :
              /\ chunks[i].start_char <= chunks[i - 1].end_char
              /\ chunks[i - 1].end_char - chunks[i].start_char <= overlap

\* a finished run with a retracted window and two chunks that do overlap
C5_Witness ==
    /\ cpc = "done"
    /\ retracted
    /\ Len(chunks) >= 3
    /\ \E i \in 2..Len(chunks) : chunks[i].start_char < chunks[i - 1].end_char

\* C6 as the spec states it: the loop runs at most ceil(len(T)/(m-o)) + 1
\* iterations, also when windows are retracted to a space near their start.
C6_CeilBoundAlways ==
    iterations <= CeilDiv(Len(text), chunk_size - overlap) + 1

\* C6 as amended: the loop runs at most len(T) iterations; the bound
\* ceil(len(T)/(m-o)) + 1 holds for the runs in which no window is retracted.
C6_IterationBound ==
    /\ iterations <= Len(text)
    /\ ~retracted => iterations <= CeilDiv(Len(text), chunk_size - overlap) + 1

\* a finished run of four or more iterations in which a window was retracted
\* to the space right after its start
C6_Witness ==
    /\ cpc = "done"
    /\ retracted
    /\ chunk_size > 1
    /\ \E i \in 1..Len(chunks) :
          /\ chunks[i].end_char = chunks[i].start_char + 1
          /\ chunks[i].end_char < Len(text)
    /\ iterations >= 4

\* C7: chunk_text of the empty text returns no chunk, and of a non-empty text
\* shorter than max_len exactly one chunk, [0, len(text)), for any overlap.
C7_ShortInputOneChunk ==
    cpc = "done" =>
        /\ Len(text) = 0 => chunks = <<>>
        /\ (0 < Len(text) /\ Len(text) < chunk_size) =>
              /\ Len(chunks) = 1
              /\ chunks[1].start_char = 0
              /\ chunks[1].end_char = Len(text)

\* C25: the chunker retracts a window's right edge only when the edge is
\* strictly inside the text and not at a word boundary: a window whose edge
\* falls on a space (the character at the edge, text[start + max_len], is a
\* space) is emitted at its full length max_len.
C25_NoRetractionAtWordBoundary ==
    \A i \in 1..Len(chunks) :
        LET edge == chunks[i].start_char + chunk_size
        IN (edge < Len(text) /\ text[edge + 1] = " ") =>
              chunks[i].end_char = edge

\* C26: for every text and every overlap < max_len each pass of the loop
\* makes progress: every chunk is non-empty, with start_char < end_char <=
\* len(text) and end_char - start_char <= max_len; the start_char of
\* successive chunks strictly increases; and the loop terminates, also on a
\* text without a space.
C26_ForwardProgress ==
    /\ [](\A i \in 1..Len(chunks) :
             /\ chunks[i].text # <<>>
             /\ Len(chunks[i].text) = chunks[i].end_char - chunks[i].start_char
             /\ 0 <= chunks[i].start_char
             /\ chunks[i].start_char < chunks[i].end_char
             /\ chunks[i].end_char <= Len(text)
             /\ chunks[i].end_char - chunks[i].start_char <= chunk_size
             /\ i > 1 => chunks[i - 1].start_char < chunks[i].start_char)
    /\ [][Len(chunks') > Len(chunks) =>
             /\ start_index' > start_index
             /\ start_index' <= Len(text)]_vars
    /\ <>(cpc = "done")

\* a finished run over a text without a space, longer than twice max_len
C26_Witness ==
    /\ cpc = "done"
    /\ \A i \in 1..Len(text) : text[i] # " "
    /\ Len(text) > 2 * chunk_size
    /\ overlap > 0
    /\ Len(chunks) >= 3

\* =========================================================== vector index
\* --- the source files: each a sequence of page texts as PyPDF2 extracts them
Spaced(n, k) == [i \in 1..n |-> IF i % k = 0 THEN " " ELSE "a"]

PdfFiles == {"short", "long"}

\* a file with text on its first and third page and a blank second page
PagedFiles == PdfFiles \cup {"paged"}

\* "short": one page, " aa a"; "long": a page without text, then 262
\* characters; "paged": "aa", a blank, "a a"
PdfPages(f) ==
    IF f = "short"
    THEN << <<" ", "a", "a", " ", "a">> >>
    ELSE IF f = "paged"
    THEN << <<"a", "a">>, <<" ">>, <<"a", " ", "a">> >>
    ELSE << <<>>, Spaced(262, 7) >>

\* str.strip(): leading and trailing whitespace removed
RECURSIVE StripLeft(_)
StripLeft(t) ==
    IF t # <<>> /\ Head(t) = " " THEN StripLeft(Tail(t)) ELSE t

RECURSIVE StripRight(_)
StripRight(t) ==
    IF t # <<>> /\ t[Len(t)] = " " THEN StripRight(SubSeq(t, 1, Len(t) - 1)) ELSE t

Strip(t) == StripRight(StripLeft(t))

\* extract_text_from_pdf: the pages that have text, stripped, with their numbers
RECURSIVE PagesFrom(_, _)
PagesFrom(pages, n) ==
    IF n > Len(pages)
    THEN <<>>
    ELSE (IF Strip(pages[n]) # <<>>
          THEN <<[text |-> Strip(pages[n]), page |-> n, total_pages |-> Len(pages)]>>
          ELSE <<>>)
         \o PagesFrom(pages, n + 1)

extract_text_from_pdf(f) == PagesFrom(PdfPages(f), 1)

\* _compute_chunk_hash: a digest of the chunk's characters
CharCode(c) == IF c = " " THEN 32 ELSE 97

\* the position-weighted sum of the character codes of t[lo..hi]
RECURSIVE WeightedSum(_, _, _)
WeightedSum(t, lo, hi) ==
    IF lo > hi THEN 0
    ELSE IF lo = hi THEN lo * CharCode(t[lo])
    ELSE LET mid == (lo + hi) \div 2
         IN WeightedSum(t, lo, mid) + WeightedSum(t, mid + 1, hi)

compute_chunk_hash(t) == (Len(t) + WeightedSum(t, 1, Len(t))) % 65521

\* the embedding provider: a pure function from a text to a unit vector
Dirs == << <<1, 0>>, <<0, 1>>, <<-1, 0>>, <<0, -1>> >>

Embed(t) == Dirs[(Len(t) % 4) + 1]

Dot(a, b) == a[1] * b[1] + a[2] * b[2]

\* pgvector's <=> on unit vectors: 1 - cosine
CosineDistance(a, b) == 1 - Dot(a, b)

\* index_pdf_document, lines 298-320: the chunks of every page and their metadata
RECURSIVE PageChunks(_, _)
PageChunks(pages_data, n) ==
    IF n > Len(pages_data)
    THEN <<>>
    ELSE LET page_data == pages_data[n]
             cs == chunk_text(page_data.text, DefaultChunkSize, DefaultOverlap)
         IN [i \in 1..Len(cs) |->
                [chunk |-> cs[i].text,
                 metadata |-> [page |-> page_data.page,
                               total_pages |-> page_data.total_pages,
                               start_char |-> cs[i].start_char,
                               end_char |-> cs[i].end_char,
                               doc_type |-> "pdf"]]]
            \o PageChunks(pages_data, n + 1)

\* per source file, what index_pdf_document hands to store_chunks_with_embeddings
AllChunks == [f \in PagedFiles |-> PageChunks(extract_text_from_pdf(f), 1)]

\* line 221 with the ordinal counted from 1
NewRow_OneBased(stock_id, doc_name, all, i, id) ==
    [id |-> id,
     stock_id |-> stock_id,
     doc_name |-> doc_name,
     chunk_index |-> i,
     chunk_hash |-> compute_chunk_hash(all[i].chunk),
     embedding |-> Embed(all[i].chunk),
     metadata |-> [page |-> all[i].metadata.page,
                   total_pages |-> all[i].metadata.total_pages,
                   start_char |-> all[i].metadata.start_char,
                   end_char |-> all[i].metadata.end_char,
                   doc_type |-> all[i].metadata.doc_type,
                   chunk_index |-> i]]

\* the INSERT of lines 202-225 with a column for the text of the chunk
NewRow_WithText(stock_id, doc_name, all, i, id) ==
    [id |-> id,
     stock_id |-> stock_id,
     doc_name |-> doc_name,
     chunk_index |-> i - 1,
     chunk_text |-> all[i].chunk,
     chunk_hash |-> compute_chunk_hash(all[i].chunk),
     embedding |-> Embed(all[i].chunk),
     metadata |-> [page |-> all[i].metadata.page,
                   total_pages |-> all[i].metadata.total_pages,
                   start_char |-> all[i].metadata.start_char,
                   end_char |-> all[i].metadata.end_char,
                   doc_type |-> all[i].metadata.doc_type,
                   chunk_index |-> i - 1]]

\* store_chunks_with_embeddings, lines 207-225: the row of the i-th chunk
\* (enumerate counts from 0), with the id the sequence gives it
NewRow(stock_id, doc_name, all, i, id) ==
    [id |-> id,
     stock_id |-> stock_id,
     doc_name |-> doc_name,
     chunk_index |-> i - 1,
     chunk_hash |-> compute_chunk_hash(all[i].chunk),
     embedding |-> Embed(all[i].chunk),
     metadata |-> [page |-> all[i].metadata.page,
                   total_pages |-> all[i].metadata.total_pages,
                   start_char |-> all[i].metadata.start_char,
                   end_char |-> all[i].metadata.end_char,
                   doc_type |-> all[i].metadata.doc_type,
                   chunk_index |-> i - 1]]

\* index_pdf_document(pdf_path = f, stock_id, doc_name): extract, chunk, embed,
\* insert in one transaction, then copy the file into pdf_storage.  (The ids a
\* rolled-back transaction drew from the sequence are handed out again here:
\* no formula reads the gaps they would leave.)
\*   embed_ok: generate_embeddings returns; inserted: the INSERTs that ran
\*   before the transaction failed (all of them: it committed); copy_ok:
\*   store_pdf_file returns.
\* lines 229-232 without the rollback: the INSERTs that ran stay
AfterRollback_KeepsInserted(rows, new_rows, inserted) ==
    rows \cup {new_rows[i] : i \in 1..inserted}

\* store_chunks_with_embeddings, lines 229-232: except Exception:
\* conn.rollback(); raise. The rows the transaction inserted are gone.
AfterRollback(rows, new_rows, inserted) == rows

\* lines 328-342 with the copy made a part of the storing: a failed copy
\* takes the rows back
AfterArchiveCopy_UndoOnFailure(rows, new_rows, copy_ok) ==
    IF copy_ok THEN rows \cup new_rows ELSE rows

\* lines 328-342: store_pdf_file is called after the commit of line 228 and
\* an exception of it is logged: the rows stay whatever the copy does
AfterArchiveCopy(rows, new_rows, copy_ok) == rows \cup new_rows

IndexPdfDocument(f, stock_id, doc_name, embed_ok, inserted, copy_ok) ==
    LET all == AllChunks[f]
        n == Len(all)
        stored == embed_ok /\ inserted = n
    IN /\ ret.op = "none"
       /\ inserted \in 0..n
       /\ next_id + n - 1 <= MaxId
       /\ next_id' = IF stored THEN next_id + n ELSE next_id
       /\ document_embeddings' =
            LET new_rows == [i \in 1..n |->
                               NewRow(stock_id, doc_name, all, i, next_id + i - 1)]
            IN IF stored
               THEN AfterArchiveCopy(document_embeddings, Range(new_rows), copy_ok)
               ELSE IF embed_ok
               THEN AfterRollback(document_embeddings, new_rows, inserted)
               ELSE document_embeddings
       /\ pdf_storage' =
            IF stored /\ copy_ok
            THEN [pdf_storage EXCEPT ![<<stock_id, doc_name>>] = f]
            ELSE pdf_storage
       /\ ret' = IF stored
                 THEN [op |-> "index", raised |-> FALSE, doc_name |-> doc_name,
                       stock_id |-> stock_id, pdf_path |-> f,
                       total_pages |-> Len(extract_text_from_pdf(f)),
                       total_chunks |-> n, pdf_stored |-> copy_ok,
                       status |-> "success"]
                 ELSE [op |-> "index", raised |-> TRUE, doc_name |-> doc_name,
                       stock_id |-> stock_id, pdf_path |-> f, chunks |-> n,
                       inserted |-> IF embed_ok THEN inserted ELSE 0]
       /\ UNCHANGED reindex
       /\ UNCHANGED <<chunkVars, busVars, consumerVars, publisherVars, apiVars>>

\* delete_document with the archived file of the document removed as well
ArchiveAfterDelete_RemovesFile(storage, stock_id, doc_name) ==
    [storage EXCEPT ![<<stock_id, doc_name>>] = None]

\* delete_document (357-389) and its handler (rag_app.py 204-238) issue the
\* DELETE only: nothing under pdf_storage is touched
ArchiveAfterDelete(storage, stock_id, doc_name) == storage

\* delete_document(stock_id, doc_name): one DELETE, committed or rolled back
DeleteDocument(stock_id, doc_name, ok) ==
    LET gone == {r \in document_embeddings :
                    r.stock_id = stock_id /\ r.doc_name = doc_name}
    IN /\ ret.op = "none"
       /\ document_embeddings' = IF ok THEN document_embeddings \ gone
                                  ELSE document_embeddings
       /\ ret' = IF ok
                 THEN [op |-> "delete", raised |-> FALSE, stock_id |-> stock_id,
                       doc_name |-> doc_name, deleted_count |-> Cardinality(gone)]
                 ELSE [op |-> "delete", raised |-> TRUE, stock_id |-> stock_id,
                       doc_name |-> doc_name]
       /\ pdf_storage' = IF ok THEN ArchiveAfterDelete(pdf_storage, stock_id, doc_name)
                         ELSE pdf_storage
       /\ UNCHANGED <<next_id, reindex>>
       /\ UNCHANGED <<chunkVars, busVars, consumerVars, publisherVars, apiVars>>

\* --- retrieval (rag/rag.py)
\* the questions asked, as texts for the embedding provider
Queries == { <<"a">>, <<"a", "a", "a", "a">> }

\* the WHERE clause with only the stock filter applied
Matches_StockOnly(row, stock_id, doc_name) ==
    stock_id # NoStockId => row.stock_id = stock_id

\* the WHERE clause of search_similar_chunks, lines 90-98 and 114
Matches(row, stock_id, doc_name) ==
    /\ stock_id # NoStockId => row.stock_id = stock_id
    /\ doc_name # None => row.doc_name = doc_name

\* lines 105-112 and 125-134: the columns selected from a row
SelectRow(row, query_embedding) ==
    [id |-> row.id,
     stock_id |-> row.stock_id,
     doc_name |-> row.doc_name,
     chunk_index |-> row.chunk_index,
     chunk_hash |-> row.chunk_hash,
     metadata |-> row.metadata,
     similarity |-> 1 - CosineDistance(row.embedding, query_embedding)]

\* ORDER BY embedding <=> query LIMIT top_k (lines 115-116): every sequence
\* the statement may return; rows at the same distance come in any order
SearchResults(rows, query_embedding, stock_id, doc_name, top_k) ==
    LET matching == {r \in rows : Matches(r, stock_id, doc_name)}
        n == IF Cardinality(matching) < top_k THEN Cardinality(matching) ELSE top_k
        dist(r) == CosineDistance(r.embedding, query_embedding)
    IN {[i \in 1..n |-> SelectRow(picked[i], query_embedding)] :
          picked \in {s \in [1..n -> matching] :
              /\ \A i, j \in 1..n : i < j => s[i] # s[j] /\ dist(s[i]) <= dist(s[j])
              /\ \A r \in matching \ Range(s) : \A i \in 1..n : dist(s[i]) <= dist(r)}}

\* an exception leaving retrieve_chunk_text_from_pdf, were one to escape
Raised == <<"raise">>

\* lines 189-191 with the handler dropped: the error of the reader escapes
OnReadError_Propagates(page_num) == Raised

\* lines 189-191: except Exception: log, return None
OnReadError(page_num) == NoText

\* retrieve_chunk_text_from_pdf (146-191): None when the path does not exist
\* (169-171), when opening, parsing or extracting raises (read_ok is FALSE),
\* when the page number is outside 1..len(pages) (177-179); else the whole
\* text of the page as the reader extracts it (182-187)
retrieve_chunk_text_from_pdf(storage, stock_id, doc_name, page_num, read_ok) ==
    IF <<stock_id, doc_name>> \notin DOMAIN storage \/ storage[<<stock_id, doc_name>>] = None
    THEN NoText
    ELSE IF ~read_ok
    THEN OnReadError(page_num)
    ELSE LET pages == PdfPages(storage[<<stock_id, doc_name>>])
         IN IF page_num < 1 \/ page_num > Len(pages)
            THEN NoText
            ELSE pages[page_num]

\* query(), lines 230-243: a result gains retrieved_text when the text is truthy
WithText(result, storage, read_ok) ==
    LET t == retrieve_chunk_text_from_pdf(storage, result.stock_id, result.doc_name,
                                          result.metadata.page, read_ok)
    IN IF t # NoText /\ t # <<>>
       THEN [result EXCEPT !.note = "Text retrieved from PDF"] @@ [retrieved_text |-> t]
       ELSE result

Noted(result) ==
    result @@ [note |-> "Text not stored in DB - retrieve from PDF if needed"]

\* an exception of retrieve_chunk_text_from_pdf would leave the loop of
\* query() (231-243), which has no handler of its own
RehydrateRaises(found, storage, read_ok) ==
    \E i \in 1..Len(found) :
        retrieve_chunk_text_from_pdf(storage, found[i].stock_id, found[i].doc_name,
                                     found[i].metadata.page, read_ok) = Raised

\* the results of query() after the loop of lines 230-243
QueryResults(found, storage, retrieve_text, read_ok) ==
    [i \in 1..Len(found) |->
        IF retrieve_text
        THEN WithText(Noted(found[i]), storage, read_ok)
        ELSE Noted(found[i])]

\* query(query_text, stock_id, doc_name, top_k, retrieve_text); db_ok: the
\* database answers (search_similar_chunks raises otherwise); read_ok: the
\* archived files can be opened and parsed
Query(query_text, stock_id, doc_name, top_k, retrieve_text, db_ok, read_ok) ==
    /\ ret.op = "none"
    /\ IF db_ok
       THEN \E found \in SearchResults(document_embeddings, Embed(query_text),
                                        stock_id, doc_name, top_k) :
              ret' = IF retrieve_text /\ RehydrateRaises(found, pdf_storage, read_ok)
                     THEN [op |-> "query", raised |-> TRUE, db_ok |-> TRUE]
                     ELSE [op |-> "query", raised |-> FALSE, query |-> query_text,
                           stock_id |-> stock_id, doc_name |-> doc_name, top_k |-> top_k,
                           results_count |-> Len(found),
                           results |-> QueryResults(found, pdf_storage, retrieve_text, read_ok),
                           text_retrieved |-> retrieve_text,
                           db_ok |-> TRUE, read_ok |-> read_ok, found |-> found]
       ELSE ret' = [op |-> "query", raised |-> TRUE, db_ok |-> FALSE]
    /\ UNCHANGED <<document_embeddings, next_id, pdf_storage, reindex>>
    /\ UNCHANGED <<chunkVars, busVars, consumerVars, publisherVars, apiVars>>

\* get_context_for_llm, line 297: the text of a result in the context
TextContent(result) ==
    IF "retrieved_text" \in DOMAIN result
    THEN result.retrieved_text
    ELSE <<"[Text not available - PDF not found]">>

\* lines 293-300 with a result that has no text left out of the context
ContextParts_SkipMissing(result, i) ==
    IF "retrieved_text" \in DOMAIN result
    THEN << <<"[Document", i, result.doc_name>>,
            <<"Page", result.metadata.page>>,
            result.retrieved_text,
            <<>> >>
    ELSE <<>>

\* get_context_for_llm, lines 293-300: the lines of context of the i-th result
ContextParts(result, i) ==
    << <<"[Document", i, result.doc_name>>,
       <<"Page", result.metadata.page>>,
       TextContent(result),
       <<>> >>

RECURSIVE FormatContext(_, _)
FormatContext(results, i) ==
    IF i > Len(results) THEN <<>>
    ELSE ContextParts(results[i], i) \o FormatContext(results, i + 1)

\* lines 302-307
Source(result) ==
    [doc_name |-> result.doc_name,
     page |-> result.metadata.page,
     chunk_index |-> result.chunk_index,
     similarity |-> result.similarity]

\* line 339 with the guard dropped: the completion is always called
NoContext_Never(sources) == FALSE

\* line 339: if not sources
NoContext(sources) == sources = <<>>

\* lines 340-346
NoDocumentsAnswer(query_text) ==
    [query |-> query_text,
     answer |-> "No relevant documents found for this query.",
     context |-> <<>>, sources |-> <<>>,
     message |-> "No documents available"]

\* lines 380-386
LlmAnswer(query_text, context, sources) ==
    [query |-> query_text, answer |-> "llm response",
     context |-> context, sources |-> sources,
     message |-> "Answer generated from documents only"]

\* lines 388-396 with the context and the sources dropped from the fallback
LlmFallback_Bare(query_text, context, sources) ==
    [query |-> query_text, answer |-> "[LLM Error]",
     context |-> <<>>, sources |-> <<>>,
     message |-> "LLM unavailable, returning context only"]

\* lines 388-396: except Exception, the fallback answer
LlmFallback(query_text, context, sources) ==
    [query |-> query_text, answer |-> "[LLM Error]",
     context |-> context, sources |-> sources,
     message |-> "LLM unavailable, returning context only"]

\* generate_answer (313-398) once the search has returned found: the
\* dictionary returned, with what the call went through
AnswerOf(query_text, found, storage, read_ok, llm_ok) ==
    LET results == QueryResults(found, storage, TRUE, read_ok)
        context == FormatContext(results, 1)
        sources == [i \in 1..Len(results) |-> Source(results[i])]
        trace == [found |-> Len(found), results |-> results,
                  assembled_context |-> context, assembled_sources |-> sources,
                  read_ok |-> read_ok]
    IN IF NoContext(sources)
       THEN NoDocumentsAnswer(query_text)
              @@ trace @@ [llm_called |-> FALSE, llm_ok |-> FALSE]
       ELSE (IF llm_ok THEN LlmAnswer(query_text, context, sources)
                       ELSE LlmFallback(query_text, context, sources))
              @@ trace @@ [llm_called |-> TRUE, llm_ok |-> llm_ok]

\* generate_answer(query_text, stock_id, doc_name, top_k); db_ok: the
\* embedding and the search return (they raise otherwise, and nothing in
\* generate_answer catches it); read_ok: the archived files can be read;
\* llm_ok: requests.post, raise_for_status and json() return
GenerateAnswer(query_text, stock_id, doc_name, top_k, db_ok, read_ok, llm_ok) ==
    /\ ret.op = "none"
    /\ IF db_ok
       THEN \E found \in SearchResults(document_embeddings, Embed(query_text),
                                        stock_id, doc_name, top_k) :
              ret' = IF RehydrateRaises(found, pdf_storage, read_ok)
                     THEN [op |-> "answer", raised |-> TRUE]
                     ELSE [op |-> "answer", raised |-> FALSE,
                           stock_id |-> stock_id, doc_name |-> doc_name,
                           top_k |-> top_k]
                          @@ AnswerOf(query_text, found, pdf_storage, read_ok, llm_ok)
       ELSE ret' = [op |-> "answer", raised |-> TRUE]
    /\ UNCHANGED <<document_embeddings, next_id, pdf_storage, reindex>>
    /\ UNCHANGED <<chunkVars, busVars, consumerVars, publisherVars, apiVars>>

InitIndex ==
    /\ IdleChunker
    /\ IdleIndex
    /\ IdleEvents
    /\ IdleApi

\* the caller takes the value returned (or the exception raised); calls are
\* made one after the other
Return ==
    /\ ret.op # "none"
    /\ ret' = [op |-> "none"]
    /\ UNCHANGED <<document_embeddings, next_id, pdf_storage, reindex>>
    /\ UNCHANGED <<chunkVars, busVars, consumerVars, publisherVars, apiVars>>

NextStore ==
    \/ \E f \in PdfFiles, d \in Documents,
          embed_ok \in BOOLEAN, inserted \in 0..MaxId, copy_ok \in BOOLEAN :
          IndexPdfDocument(f, d[1], d[2], embed_ok, inserted, copy_ok)
    \/ \E d \in Documents, ok \in BOOLEAN :
          DeleteDocument(d[1], d[2], ok)
    \/ Return

NextIndex ==
    \/ NextStore
    \/ \E query_text \in Queries, stock_id \in StockIds \cup {NoStockId},
          doc_name \in DocNames \cup {None}, top_k \in 1..MaxTopK,
          retrieve_text \in BOOLEAN, db_ok \in BOOLEAN, read_ok \in BOOLEAN :
          Query(query_text, stock_id, doc_name, top_k, retrieve_text, db_ok, read_ok)

SpecIndex == InitIndex /\ [][NextIndex]_vars

NextAnswer ==
    \/ NextStore
    \/ \E query_text \in Queries, stock_id \in StockIds \cup {NoStockId},
          doc_name \in DocNames \cup {None}, top_k \in 1..MaxTopK,
          db_ok \in BOOLEAN, read_ok \in BOOLEAN, llm_ok \in BOOLEAN :
          GenerateAnswer(query_text, stock_id, doc_name, top_k, db_ok, read_ok, llm_ok)

SpecAnswer == InitIndex /\ [][NextAnswer]_vars

\* ---------------------------------------------------- vector index claims
\* C1: after any sequence of index and delete operations the vector index
\* never holds two chunk records with the same (stock_id, doc_name,
\* chunk_index): index removes the document's old records first.
C1_NoDuplicateChunkRecords ==
    \A r1, r2 \in document_embeddings :
        (/\ r1.stock_id = r2.stock_id
         /\ r1.doc_name = r2.doc_name
         /\ r1.chunk_index = r2.chunk_index) => r1.id = r2.id

C9_TiesByAscendingId ==
    (ret.op = "query" /\ ~ret.raised) =>
        \A i, j \in 1..Len(ret.results) :
            i < j =>
                \/ ret.results[i].similarity > ret.results[j].similarity
                \/ /\ ret.results[i].similarity = ret.results[j].similarity
                   /\ ret.results[i].id < ret.results[j].id

\* C10: when the search of a generate_answer call returns no result, the
\* call returns the fixed answer with empty context and sources, and the
\* completion is not called.
C10_NoResultsNoCompletion ==
    (ret.op = "answer" /\ ~ret.raised /\ ret.found = 0) =>
        /\ ret.answer = "No relevant documents found for this query."
        /\ ret.context = <<>>
        /\ ret.sources = <<>>
        /\ ~ret.llm_called

\* an answer whose filter matches none of the records the index holds
C10_Witness ==
    /\ ret.op = "answer"
    /\ ~ret.raised
    /\ ret.found = 0
    /\ ret.doc_name # None
    /\ document_embeddings # {}
    /\ ~ret.llm_called

\* C11: when the search of a generate_answer call returned at least one
\* result and the completion call fails, the call does not raise: it returns
\* the context and the sources it assembled before the call, and an answer
\* text that flags the failure.
C11_CompletionFailureFallback ==
    (ret.op = "answer" /\ ~ret.raised /\ ret.found >= 1 /\ ~ret.llm_ok) =>
        /\ ret.llm_called
        /\ ret.context = ret.assembled_context
        /\ ret.sources = ret.assembled_sources
        /\ Len(ret.sources) = ret.found
        /\ ret.context # <<>>
        /\ ret.answer = "[LLM Error]"

\* a failed completion after a search that found two records
C11_Witness ==
    /\ ret.op = "answer"
    /\ ~ret.raised
    /\ ret.found = 2
    /\ ret.llm_called
    /\ ~ret.llm_ok

\* the archived file of a result cannot give the text of its page
NoArchivedPage(result, storage, read_ok) ==
    \/ storage[<<result.stock_id, result.doc_name>>] = None
    \/ ~read_ok
    \/ result.metadata.page < 1
    \/ result.metadata.page > Len(PdfPages(storage[<<result.stock_id, result.doc_name>>]))

\* C12: rehydration never raises: a query whose search succeeded returns, with
\* every result of the search in place, and a result whose archived file is
\* missing, unreadable, or shorter than the result's page number has no
\* retrieved text.
C12_RehydrateNeverRaises ==
    (ret.op = "query" /\ ret.db_ok) =>
        /\ ~ret.raised
        /\ Len(ret.results) = Len(ret.found)
        /\ \A i \in 1..Len(ret.results) :
              /\ ret.results[i].id = ret.found[i].id
              /\ (ret.text_retrieved /\ NoArchivedPage(ret.found[i], pdf_storage, ret.read_ok))
                    => "retrieved_text" \notin DOMAIN ret.results[i]

\* a query with text retrieval that returns one result with its text and one
\* whose page number is beyond the pages of the archived file
C12_Witness ==
    /\ ret.op = "query"
    /\ ~ret.raised
    /\ ret.text_retrieved
    /\ ret.read_ok
    /\ \E i, j \in 1..Len(ret.results) :
          /\ "retrieved_text" \in DOMAIN ret.results[i]
          /\ pdf_storage[<<ret.found[j].stock_id, ret.found[j].doc_name>>] # None
          /\ ret.found[j].metadata.page >
               Len(PdfPages(pdf_storage[<<ret.found[j].stock_id, ret.found[j].doc_name>>]))
          /\ "retrieved_text" \notin DOMAIN ret.results[j]

\* C13: sources has one entry per search result, in the order of the ranking,
\* with the result's document name, page and similarity, whether or not its
\* text was rehydrated; a result without text puts its header and the
\* unavailable marker in the context at its own position.
C13_SourcesIndependentOfText ==
    (ret.op = "answer" /\ ~ret.raised) =>
        /\ Len(ret.assembled_sources) = Len(ret.results)
        /\ Len(ret.assembled_context) = 4 * Len(ret.results)
        /\ \A i \in 1..Len(ret.results) :
              /\ ret.assembled_sources[i].doc_name = ret.results[i].doc_name
              /\ ret.assembled_sources[i].page = ret.results[i].metadata.page
              /\ ret.assembled_sources[i].similarity = ret.results[i].similarity
              /\ ret.assembled_context[4 * i - 3] = <<"[Document", i, ret.results[i].doc_name>>
              /\ ret.assembled_context[4 * i - 2] = <<"Page", ret.results[i].metadata.page>>
              /\ "retrieved_text" \notin DOMAIN ret.results[i] =>
                    ret.assembled_context[4 * i - 1] = <<"[Text not available - PDF not found]">>
              /\ "retrieved_text" \in DOMAIN ret.results[i] =>
                    ret.assembled_context[4 * i - 1] = ret.results[i].retrieved_text
        /\ \A i, j \in 1..Len(ret.results) :
              i < j => ret.results[i].similarity >= ret.results[j].similarity
        /\ ret.llm_called => ret.sources = ret.assembled_sources

\* an answer over two results, the first without rehydrated text and the
\* second with it
C13_Witness ==
    /\ ret.op = "answer"
    /\ ~ret.raised
    /\ Len(ret.results) = 2
    /\ "retrieved_text" \notin DOMAIN ret.results[1]
    /\ "retrieved_text" \in DOMAIN ret.results[2]
    /\ Len(ret.sources) = 2

\* C17: indexing is atomic per document: a call of index that raises, because
\* the embedding failed or an INSERT of the batch failed, leaves the vector
\* index as it was; a call that returns has added every chunk of the call.
C17_IndexAtomic ==
    [][(ret.op = "none" /\ ret'.op = "index") =>
          IF ret'.raised
          THEN document_embeddings' = document_embeddings
          ELSE /\ document_embeddings \subseteq document_embeddings'
               /\ LET added == document_embeddings' \ document_embeddings
                  IN /\ Cardinality(added) = ret'.total_chunks
                     /\ {r.chunk_index : r \in added} = 0..(ret'.total_chunks - 1)
                     /\ \A r \in added : /\ r.stock_id = ret'.stock_id
                                         /\ r.doc_name = ret'.doc_name]_vars

\* a call of index that raised after the first INSERT of a two-chunk
\* document had run, over an index that already held records
C17_Witness ==
    /\ ret.op = "index"
    /\ ret.raised
    /\ ret.chunks >= 2
    /\ ret.inserted >= 1
    /\ document_embeddings # {}

\* C20: rehydration gives back the indexed fragment: the text retrieved for a
\* chunk record whose archived file is the one it was indexed from is the
\* fragment that was chunked, and its digest is the record's chunk_hash.
C20_RehydrationRoundTrip ==
    (ret.op = "query" /\ ~ret.raised /\ ret.text_retrieved /\ ret.read_ok) =>
        \A i \in 1..Len(ret.results) :
            LET r == ret.results[i]
                f == pdf_storage[<<r.stock_id, r.doc_name>>]
                k == r.chunk_index + 1
            IN (/\ f # None
                /\ k <= Len(AllChunks[f])
                /\ AllChunks[f][k].metadata = [x \in DOMAIN AllChunks[f][k].metadata |-> r.metadata[x]]
                /\ compute_chunk_hash(AllChunks[f][k].chunk) = r.chunk_hash) =>
                  /\ "retrieved_text" \in DOMAIN r
                  /\ r.retrieved_text = AllChunks[f][k].chunk
                  /\ compute_chunk_hash(r.retrieved_text) = r.chunk_hash


\* the columns of document_embeddings that an INSERT or the sequence fills
\* (indexing.py 53-61), and the keys of the metadata (309-315, 215)
RecordColumns ==
    {"id", "stock_id", "doc_name", "chunk_index", "chunk_hash", "embedding", "metadata"}
MetadataKeys ==
    {"page", "total_pages", "start_char", "end_char", "doc_type", "chunk_index"}

\* C23: in every state of the vector index no chunk record holds the text of
\* its fragment: a record has the identity columns, chunk_index, the digest,
\* the embedding and the position metadata, and nothing else.
C23_NoLiteralTextStored ==
    \A r \in document_embeddings :
        /\ DOMAIN r = RecordColumns
        /\ r.id \in 1..MaxId
        /\ <<r.stock_id, r.doc_name>> \in Documents
        /\ r.chunk_index \in Nat
        /\ r.chunk_hash \in 0..65520
        /\ r.embedding \in Range(Dirs)
        /\ DOMAIN r.metadata = MetadataKeys
        /\ r.metadata.doc_type = "pdf"
        /\ \A k \in MetadataKeys \ {"doc_type"} : r.metadata[k] \in Nat

\* an index call has stored the two chunks of the second page of a file, the
\* first of them a full window of text
C23_Witness ==
    /\ ret.op = "index"
    /\ ~ret.raised
    /\ ret.total_chunks = 2
    /\ \E r \in document_embeddings :
          /\ r.metadata.page = 2
          /\ r.metadata.end_char - r.metadata.start_char > 200

\* C24: delete(stock_id, doc_name) removes every chunk record of that pair
\* and returns their number; the records of every other pair and the archive,
\* the file of the deleted document included, are as before; a delete that
\* fails removes nothing.
C24_DeleteFrame ==
    [][(ret.op = "none" /\ ret'.op = "delete") =>
          LET matching == {r \in document_embeddings :
                              /\ r.stock_id = ret'.stock_id
                              /\ r.doc_name = ret'.doc_name}
          IN /\ pdf_storage' = pdf_storage
             /\ IF ret'.raised
                THEN document_embeddings' = document_embeddings
                ELSE /\ document_embeddings' = document_embeddings \ matching
                     /\ ret'.deleted_count = Cardinality(matching)]_vars

\* a delete has removed the records of a document whose file is still in the
\* archive, and the records of another document are still in the index
C24_Witness ==
    /\ ret.op = "delete"
    /\ ~ret.raised
    /\ ret.deleted_count >= 1
    /\ pdf_storage[<<ret.stock_id, ret.doc_name>>] # None
    /\ document_embeddings # {}
    /\ \A r \in document_embeddings :
          <<r.stock_id, r.doc_name>> # <<ret.stock_id, ret.doc_name>>

\* --- ingestion of files of several pages: index and delete, no search
NextIngest ==
    \/ \E f \in PagedFiles, d \in Documents,
          embed_ok \in BOOLEAN, inserted \in 0..MaxId, copy_ok \in BOOLEAN :
          IndexPdfDocument(f, d[1], d[2], embed_ok, inserted, copy_ok)
    \/ \E d \in Documents, ok \in BOOLEAN :
          DeleteDocument(d[1], d[2], ok)
    \/ Return

SpecIngest == InitIndex /\ [][NextIngest]_vars

\* the page has text that PyPDF2 extracts (indexing.py 105-106)
HasText(f, page) == Strip(PdfPages(f)[page]) # <<>>

\* C27: after a successful index of a document that had no chunk records, the
\* records of the document have the chunk_index values 0..N-1, each once, in
\* the order of the pages and, within a page, of the offsets; every page with
\* text has its chunks and a page without text has none; the call returns N.
C27_ChunkIndexDense ==
    [][(/\ ret.op = "none"
        /\ ret'.op = "index"
        /\ ~ret'.raised
        /\ \A r \in document_embeddings :
              <<r.stock_id, r.doc_name>> # <<ret'.stock_id, ret'.doc_name>>) =>
          LET rows == {r \in document_embeddings' :
                          <<r.stock_id, r.doc_name>> = <<ret'.stock_id, ret'.doc_name>>}
              N == Cardinality(rows)
              f == ret'.pdf_path
          IN /\ ret'.total_chunks = N
             /\ {r.chunk_index : r \in rows} = 0..(N - 1)
             /\ \A r \in rows : r.metadata.chunk_index = r.chunk_index
             /\ \A r1, r2 \in rows :
                   r1.chunk_index < r2.chunk_index <=>
                       \/ r1.metadata.page < r2.metadata.page
                       \/ /\ r1.metadata.page = r2.metadata.page
                          /\ r1.metadata.start_char < r2.metadata.start_char
             /\ \A p \in 1..Len(PdfPages(f)) :
                   HasText(f, p) <=> \E r \in rows : r.metadata.page = p]_vars

\* the file with a blank page between two pages of text has been indexed
\* under a document that had no records
C27_Witness ==
    /\ ret.op = "index"
    /\ ~ret.raised
    /\ ret.pdf_path = "paged"
    /\ ret.total_chunks = 2
    /\ Cardinality({r \in document_embeddings :
                       <<r.stock_id, r.doc_name>> = <<ret.stock_id, ret.doc_name>>}) = 2
    /\ \E r \in document_embeddings : r.chunk_index = 1 /\ r.metadata.page = 3

\* C29: the archive copy never affects the indexed records: the copy is tried
\* only after the records are committed, an index call whose copy fails
\* returns success with pdf_stored false and has added all its records, and
\* the records of a document whose archived file is missing are found and
\* answered in degraded mode (listed in the sources, with the unavailable
\* marker in the context).
C29_ArchiveCopyIndependent ==
    /\ [][(ret.op = "none" /\ ret'.op = "index") =>
            IF ret'.raised
            THEN pdf_storage' = pdf_storage
            ELSE /\ ret'.status = "success"
                 /\ Cardinality(document_embeddings' \ document_embeddings)
                       = ret'.total_chunks
                 /\ document_embeddings \subseteq document_embeddings'
                 /\ ret'.pdf_stored =>
                       pdf_storage' = [pdf_storage EXCEPT
                           ![<<ret'.stock_id, ret'.doc_name>>] = ret'.pdf_path]
                 /\ ~ret'.pdf_stored => pdf_storage' = pdf_storage]_vars
    /\ []((ret.op = "answer" /\ ~ret.raised) =>
            \A i \in 1..Len(ret.results) :
                pdf_storage[<<ret.results[i].stock_id, ret.results[i].doc_name>>] = None =>
                    /\ "retrieved_text" \notin DOMAIN ret.results[i]
                    /\ ret.assembled_sources[i].doc_name = ret.results[i].doc_name
                    /\ ret.assembled_context[4 * i - 1]
                          = <<"[Text not available - PDF not found]">>)

\* the completion was called for an answer over a record whose document has
\* no archived file
C29_Witness ==
    /\ ret.op = "answer"
    /\ ~ret.raised
    /\ ret.llm_called
    /\ Len(ret.results) >= 1
    /\ pdf_storage[<<ret.results[1].stock_id, ret.results[1].doc_name>>] = None
    /\ Len(ret.sources) = Len(ret.results)

\* ----------------------------------------------------------------------
\* Re-indexing a document (indexing.py 433-460): the script deletes the
\* records of the document and indexes the file again, while the retriever
\* answers searches over connections of its own. Every statement runs on a
\* connection that psycopg2.connect opened with autocommit off (indexing.py
\* 40, rag.py 41): what a transaction wrote is read by the other connections
\* from its commit on, and a SELECT reads one snapshot of the table.
\* ----------------------------------------------------------------------
ReindexedDocument == <<1, "A.pdf">>

\* line 218 on a connection in autocommit mode: the row is committed at once
AfterInsert_Autocommit(rows, row) == rows \cup {row}

\* store_chunks_with_embeddings, line 218: cursor.execute of the INSERT inside
\* the open transaction; the table the other connections read is as before
AfterInsert(rows, row) == rows

\* line 450: delete_document(stock_id, doc_name), committed (378), or rolled
\* back and raised (383-386), which ends the script
ReindexDelete(f, ok) ==
    /\ reindex.pc = "idle"
    /\ next_id + Len(AllChunks[f]) - 1 <= MaxId
    /\ LET gone == {r \in document_embeddings :
                       /\ r.stock_id = ReindexedDocument[1]
                       /\ r.doc_name = ReindexedDocument[2]}
       IN /\ document_embeddings' = IF ok THEN document_embeddings \ gone
                                     ELSE document_embeddings
          /\ reindex' = [pc |-> IF ok THEN "embed" ELSE "done",
                         file |-> f, old |-> gone, tx |-> <<>>]
    /\ UNCHANGED <<next_id, pdf_storage, ret>>
    /\ UNCHANGED <<chunkVars, busVars, consumerVars, publisherVars, apiVars>>

\* index_pdf_document, lines 296-325: extract, chunk, generate_embeddings;
\* an exception of the embedding model ends the script
ReindexEmbed(ok) ==
    /\ reindex.pc = "embed"
    /\ reindex' = [reindex EXCEPT !.pc = IF ok THEN "insert" ELSE "done"]
    /\ UNCHANGED <<document_embeddings, next_id, pdf_storage, ret>>
    /\ UNCHANGED <<chunkVars, busVars, consumerVars, publisherVars, apiVars>>

\* store_chunks_with_embeddings, one pass of the loop of lines 207-226: the
\* INSERT runs and draws the next id, or fails, and the except block rolls
\* the transaction back and raises (231-234)
ReindexInsert(ok) ==
    /\ reindex.pc = "insert"
    /\ Len(reindex.tx) < Len(AllChunks[reindex.file])
    /\ IF ok
       THEN LET row == NewRow(ReindexedDocument[1], ReindexedDocument[2],
                              AllChunks[reindex.file], Len(reindex.tx) + 1, next_id)
            IN /\ document_embeddings' = AfterInsert(document_embeddings, row)
               /\ reindex' = [reindex EXCEPT !.tx = Append(reindex.tx, row)]
               /\ next_id' = next_id + 1
       ELSE /\ document_embeddings' =
                 AfterRollback(document_embeddings, reindex.tx, Len(reindex.tx))
            /\ reindex' = [reindex EXCEPT !.pc = "done"]
            /\ UNCHANGED next_id
    /\ UNCHANGED <<pdf_storage, ret>>
    /\ UNCHANGED <<chunkVars, busVars, consumerVars, publisherVars, apiVars>>

\* line 228: conn.commit() after the loop: the rows of the transaction are in
\* the table; when the commit fails they are rolled back (231-234)
ReindexCommit(ok) ==
    /\ reindex.pc = "insert"
    /\ Len(reindex.tx) = Len(AllChunks[reindex.file])
    /\ document_embeddings' =
         IF ok THEN document_embeddings \cup Range(reindex.tx)
         ELSE AfterRollback(document_embeddings, reindex.tx, Len(reindex.tx))
    /\ reindex' = [reindex EXCEPT !.pc = IF ok THEN "copy" ELSE "done"]
    /\ UNCHANGED <<next_id, pdf_storage, ret>>
    /\ UNCHANGED <<chunkVars, busVars, consumerVars, publisherVars, apiVars>>

\* lines 338-342: store_pdf_file, an exception of which is logged
ReindexCopy(copy_ok) ==
    /\ reindex.pc = "copy"
    /\ pdf_storage' = IF copy_ok
                      THEN [pdf_storage EXCEPT ![ReindexedDocument] = reindex.file]
                      ELSE pdf_storage
    /\ reindex' = [reindex EXCEPT !.pc = "done"]
    /\ UNCHANGED <<document_embeddings, next_id, ret>>
    /\ UNCHANGED <<chunkVars, busVars, consumerVars, publisherVars, apiVars>>

\* the database and the archive as one earlier upload left them: the rows
\* of index_pdf_document(f, stock_id, doc_name) on an empty table, and the
\* file in pdf_storage when the copy was made
UploadedBefore(f, stock_id, doc_name, copy_ok) ==
    LET all == AllChunks[f]
        n == Len(all)
    IN /\ n <= MaxId
       /\ document_embeddings = {NewRow(stock_id, doc_name, all, i, i) : i \in 1..n}
       /\ next_id = n + 1
       /\ pdf_storage = [k \in Documents |->
                           IF k = <<stock_id, doc_name>> /\ copy_ok THEN f ELSE None]
       /\ ret = [op |-> "none"]
       /\ reindex = NoReindex

\* the table is empty or holds the document as an earlier upload left it
InitReindex ==
    /\ IdleChunker
    /\ IdleEvents
    /\ IdleApi
    /\ \/ IdleIndex
       \/ \E f \in PdfFiles, copy_ok \in BOOLEAN :
             UploadedBefore(f, ReindexedDocument[1], ReindexedDocument[2], copy_ok)

\* one run of the script, and the searches of the retriever at any point of it
NextReindex ==
    \/ \E f \in PdfFiles, ok \in BOOLEAN : ReindexDelete(f, ok)
    \/ \E ok \in BOOLEAN : ReindexEmbed(ok)
    \/ \E ok \in BOOLEAN : ReindexInsert(ok)
    \/ \E ok \in BOOLEAN : ReindexCommit(ok)
    \/ \E copy_ok \in BOOLEAN : ReindexCopy(copy_ok)
    \/ \E query_text \in Queries, stock_id \in StockIds \cup {NoStockId},
          doc_name \in DocNames \cup {None}, top_k \in 1..MaxTopK,
          retrieve_text \in BOOLEAN, db_ok \in BOOLEAN, read_ok \in BOOLEAN :
          Query(query_text, stock_id, doc_name, top_k, retrieve_text, db_ok, read_ok)
    \/ Return

SpecReindex == InitReindex /\ [][NextReindex]_vars

\* C21: a search that runs while document D is re-indexed (its records
\* deleted, then the new ones inserted) sees of D the whole old set, nothing,
\* or the whole new set: never old and new records together, and, when top_k
\* does not cut the result, never a part of the new set.
C21_ReindexReadersSeeWholeSets ==
    (ret.op = "query" /\ ~ret.raised /\ reindex.pc # "idle") =>
        LET seen == {ret.found[i].id : i \in
                        {k \in 1..Len(ret.found) :
                            <<ret.found[k].stock_id, ret.found[k].doc_name>>
                                = ReindexedDocument}}
            old == {r.id : r \in reindex.old}
            new == {reindex.tx[i].id : i \in 1..Len(reindex.tx)}
        IN /\ seen \subseteq old \/ seen \subseteq new
           /\ Len(ret.found) < ret.top_k =>
                 \/ seen = {}
                 \/ seen = old
                 \/ /\ seen = new
                    /\ Cardinality(new) = Len(AllChunks[reindex.file])

\* a search for D that found nothing, returned while the transaction of the
\* two-chunk file had made its first INSERT and not yet committed, after the
\* old records of D were deleted
C21_Witness ==
    /\ ret.op = "query"
    /\ ~ret.raised
    /\ ret.doc_name = ReindexedDocument[2]
    /\ ret.found = <<>>
    /\ reindex.pc = "insert"
    /\ reindex.old # {}
    /\ Len(reindex.tx) = 1
    /\ Len(AllChunks[reindex.file]) = 2


\* ======================================================================
\* The audit-event path: rag/kafka_producer.py publishes one event per
\* answered exchange to the topic chat_messages; kafka_consumer/consumer_app.py
\* reads the topic and kafka_consumer/db_writer.py inserts one row of
\* chat_history per record. An event carries user, query, answer, model,
\* sources_count, status and a timestamp and no identifier of its own
\* (kafka_producer.py 84-94); the model names the exchange it came from
\* (event) so that the rows of one exchange can be counted.
\* ======================================================================

NoMessage == [offset |-> 0 - 1, event |-> 0]

\* the ConsumerRecord at an offset of the topic (offsets start at 0)
RecordAt(k) == [offset |-> k, event |-> topic[k + 1].event]

\* the outcomes of producer.send + future.get (kafka_producer.py 97-99) with
\* acks='all', retries=3 (39-40): acknowledged; acknowledged after the client resent a
\* request whose first copy the broker had already appended; failed
SendOutcomes == {"acked", "resent", "failed"}

\* _connect, line 31
max_retries == 5

\* _connect (kafka_producer.py 29-51), one pass of `for attempt in
\* range(max_retries)`: KafkaProducer(...) returns (ok) and the loop is left,
\* or raises KafkaError; after the last failed attempt the producer is None
ConnectAttempt(ok) ==
    /\ ppc = "connect"
    /\ connect_attempts < max_retries
    /\ connect_attempts' = connect_attempts + 1
    /\ producer' = IF ok THEN "KafkaProducer" ELSE None
    /\ ppc' = IF ok \/ connect_attempts + 1 = max_retries THEN "ready" ELSE "connect"
    /\ UNCHANGED <<topic, published, send_attempts, publish_result>>
    /\ UNCHANGED <<consumerVars, chunkVars, indexVars, apiVars>>

\* lines 80-82 without the guard: send is called whatever the producer is
SendAttempted_Always(p) == TRUE

\* publish_chat_message, lines 80-82: `if not self.producer: return False`
SendAttempted(p) == p # None

\* lines 96-110: what send + get leave on the topic
TopicAfterPublish(t, p, m, outcome) ==
    IF ~SendAttempted(p) \/ outcome = "failed" THEN t
    ELSE IF outcome = "acked" THEN Append(t, m)
    ELSE Append(Append(t, m), m)

\* lines 80-110: True after the acknowledgment (103), False when there is no
\* producer (82) and when send or get raised (105-110)
PublishReturn(p, outcome) == SendAttempted(p) /\ outcome # "failed"

\* publish_chat_message (kafka_producer.py 53-110). Returns False without
\* sending when there is no producer; an error of send or get is caught and
\* gives False.
PublishChatMessage(outcome) ==
    /\ ppc = "ready"
    /\ published < MaxEvents
    /\ published' = published + 1
    /\ topic' = TopicAfterPublish(topic, producer, [event |-> published + 1], outcome)
    /\ send_attempts' = IF SendAttempted(producer) THEN send_attempts + 1 ELSE send_attempts
    /\ publish_result' = PublishReturn(producer, outcome)
    /\ UNCHANGED <<producer, ppc, connect_attempts>>
    /\ UNCHANGED <<consumerVars, chunkVars, indexVars, apiVars>>

\* main (consumer_app.py 96-168), `while running:` (129): enter the for loop
\* over the consumer, or leave for the finally block
\* line 129 with the flag ignored: `while True:`
LoopCondition_Always(flag) == TRUE

\* line 129: the condition of `while running:`
LoopCondition(flag) == flag

WhileRunning ==
    /\ kpc = "while"
    /\ kpc' = IF LoopCondition(running) THEN "next" ELSE "cleanup"
    /\ UNCHANGED <<position, committed, chat_history, connection, running,
                   message, message_count, writes>>
    /\ UNCHANGED <<busVars, chunkVars, indexVars, publisherVars, apiVars>>

\* `for message in consumer:` (132) asks the consumer for the next record.
\* The consumer is created with enable_auto_commit=True and
\* auto_commit_interval_ms=1000 (consumer_app.py 55-56): a poll that finds the
\* interval elapsed (auto_commit) commits the position, which is one past the
\* last record handed to the loop. With consumer_timeout_ms=1000 (58) the
\* iteration ends when no record arrives in time. poll_error: the poll raises,
\* `except Exception` (146) logs and the while loop goes round.
NextMessage(auto_commit, poll_error) ==
    /\ kpc = "next"
    /\ committed' = IF auto_commit THEN position ELSE committed
    /\ IF poll_error
       THEN /\ kpc' = "while"
            /\ UNCHANGED <<position, message>>
       ELSE IF position < Len(topic)
       THEN /\ message' = RecordAt(position)
            /\ position' = position + 1
            /\ kpc' = "got"
       ELSE /\ kpc' = "while"
            /\ UNCHANGED <<position, message>>
    /\ UNCHANGED <<chat_history, connection, running, message_count, writes>>
    /\ UNCHANGED <<busVars, chunkVars, indexVars, publisherVars, apiVars>>

\* `if not running: break` (133-134): the record the loop holds is dropped
BreakNotRunning ==
    /\ kpc = "got"
    /\ ~running
    /\ kpc' = "while"
    /\ message' = NoMessage
    /\ UNCHANGED <<position, committed, chat_history, connection, running,
                   message_count, writes>>
    /\ UNCHANGED <<busVars, chunkVars, indexVars, publisherVars, apiVars>>

\* the outcomes of cursor.execute + connection.commit (db_writer.py 89-103) on
\* a usable connection: the row is committed; the statement fails and the
\* connection stays usable; the server has gone and the connection is lost
WriteOutcomes == {"ok", "stmt_error", "conn_lost"}

\* write_chat_message (db_writer.py 66-114) as process_message sees it:
\* True, False, or "raised" when the rollback of the except block (108)
\* raises on a lost connection and the exception leaves the function before
\* the reconnect of lines 110-113 is tried.
WriteResult(conn, outcome) ==
    IF conn = "lost" \/ outcome = "conn_lost" THEN "raised"
    ELSE IF outcome = "ok" THEN "True"
    ELSE "False"

\* write_chat_message never reads the table: the INSERT (77-88) has no key
\* of the event and no ON CONFLICT clause
InsertRow(rows, m) == Append(rows, [event |-> m.event])

\* message_count += 1 and the call process_message(message.value, db_writer)
\* (136-141), up to the call of write_chat_message (85)
ProcessMessage ==
    /\ kpc = "got"
    /\ running
    /\ message_count' = message_count + 1
    /\ kpc' = "writing"
    /\ UNCHANGED <<position, committed, chat_history, connection, running,
                   message, writes>>
    /\ UNCHANGED <<busVars, chunkVars, indexVars, publisherVars, apiVars>>

\* write_chat_message returns to process_message (73-93), which logs a False
\* result and catches an exception; the for loop then asks for the next
\* record. The write is made once.
WriteChatMessage(outcome, reconnect_ok) ==
    /\ kpc = "writing"
    /\ LET result == WriteResult(connection, outcome)
       IN /\ chat_history' = IF result = "True"
                             THEN InsertRow(chat_history, message)
                             ELSE chat_history
          /\ connection' = IF result = "raised" THEN "lost" ELSE "open"
          /\ writes' = Append(writes,
                 [offset |-> message.offset, event |-> message.event,
                  result |-> result,
                  reconnect |-> result = "False",
                  reconnected |-> result = "False" /\ reconnect_ok])
    /\ message' = NoMessage
    /\ kpc' = "next"
    /\ UNCHANGED <<position, committed, running, message_count>>
    /\ UNCHANGED <<busVars, chunkVars, indexVars, publisherVars, apiVars>>

\* signal_handler (31-35), on SIGINT or SIGTERM at any point of main
SignalHandler ==
    /\ kpc \in {"while", "next", "got", "writing"}
    /\ running
    /\ running' = FALSE
    /\ UNCHANGED <<position, committed, chat_history, connection, kpc,
                   message, message_count, writes>>
    /\ UNCHANGED <<busVars, chunkVars, indexVars, publisherVars, apiVars>>

\* the finally block (152-165): consumer.close() commits the position when
\* auto-commit is on (an error of it is logged by the library), then
\* db_writer.close()
Cleanup(commit_ok) ==
    /\ kpc = "cleanup"
    /\ committed' = IF commit_ok THEN position ELSE committed
    /\ connection' = "closed"
    /\ kpc' = "stopped"
    /\ UNCHANGED <<position, chat_history, running, message, message_count, writes>>
    /\ UNCHANGED <<busVars, chunkVars, indexVars, publisherVars, apiVars>>

\* the publisher after its constructor: _connect got a producer at its first
\* attempt, or gave up after the last one
Constructed ==
    /\ ppc = "ready"
    /\ producer \in {"KafkaProducer", None}
    /\ connect_attempts = IF producer = None THEN max_retries ELSE 1
    /\ send_attempts = 0
    /\ publish_result = FALSE

\* after the constructors: ChatMessageProducer._connect left a producer, or
\* None after max_retries attempts (kafka_producer.py 29-51); main connected
\* the writer, created the
\* consumer of a new group (auto_offset_reset='earliest') and reached the loop
InitConsumer ==
    /\ IdleChunker
    /\ IdleIndex
    /\ topic = <<>>
    /\ published = 0
    /\ Constructed
    /\ position = 0
    /\ committed = 0
    /\ chat_history = <<>>
    /\ connection = "open"
    /\ running = TRUE
    /\ kpc = "while"
    /\ message = NoMessage
    /\ message_count = 0
    /\ writes = <<>>
    /\ IdleApi

NextConsumer ==
    \/ \E outcome \in SendOutcomes : PublishChatMessage(outcome)
    \/ WhileRunning
    \/ \E auto_commit \in BOOLEAN, poll_error \in BOOLEAN :
         NextMessage(auto_commit, poll_error)
    \/ BreakNotRunning
    \/ ProcessMessage
    \/ \E outcome \in WriteOutcomes, reconnect_ok \in BOOLEAN :
         WriteChatMessage(outcome, reconnect_ok)
    \/ SignalHandler
    \/ \E commit_ok \in BOOLEAN : Cleanup(commit_ok)

SpecConsumer == InitConsumer /\ [][NextConsumer]_vars

\* the consumer process keeps running: the loop test, the poll (which returns
\* a record, or gives up after consumer_timeout_ms), the break, the write and
\* the finally block each complete. Nothing is assumed of the publisher or of
\* the signal.
ConsumerFairness ==
    /\ WF_vars(WhileRunning)
    /\ WF_vars(\E auto_commit \in BOOLEAN, poll_error \in BOOLEAN :
                  NextMessage(auto_commit, poll_error))
    /\ WF_vars(BreakNotRunning)
    /\ WF_vars(ProcessMessage)
    /\ WF_vars(\E outcome \in WriteOutcomes, reconnect_ok \in BOOLEAN :
                  WriteChatMessage(outcome, reconnect_ok))
    /\ WF_vars(\E commit_ok \in BOOLEAN : Cleanup(commit_ok))

SpecConsumerLive == SpecConsumer /\ ConsumerFairness

\* ----------------------------------------------------------------------
\* Claims about the audit-event path
\* ----------------------------------------------------------------------

\* the offsets of the topic whose event has a committed row
Durable(k) == \E i \in 1..Len(chat_history) : chat_history[i].event = topic[k + 1].event

\* C2: the consumer commits its position in the bus only after the row of the
\* event is durably written: every record below the committed offset has its
\* row in chat_history.
C2_CommitAfterDurableWrite ==
    \A k \in 0..(committed - 1) : Durable(k)

\* C3: when a write fails the consumer opens a fresh connection and retries
\* the same event before it takes the next one: a failed call of
\* write_chat_message tried a reconnect, the next call is for the same record,
\* and until that call is made the position has not moved past the record.
C3_RetrySameEventFirst ==
    \A i \in 1..Len(writes) :
        writes[i].result # "True" =>
            /\ writes[i].reconnect
            /\ IF i < Len(writes)
               THEN writes[i + 1].offset = writes[i].offset
               ELSE position <= writes[i].offset + 1

\* C28: write_chat_message reports every outcome as a value: True exactly
\* when the row was committed, False, never an exception, on every failure,
\* a lost connection included; and a failed write tries to open a fresh
\* connection before it returns.
C28_WriteReportsByValue ==
    /\ \A i \in 1..Len(writes) :
          /\ writes[i].result \in {"True", "False"}
          /\ writes[i].result # "True" => writes[i].reconnect
    /\ Cardinality({i \in 1..Len(writes) : writes[i].result = "True"})
          = Len(chat_history)

\* C30: the consumer never discards an event it has taken from the bus
\* without attempting to write it: every record the loop has been handed is
\* the one it holds or has been passed to write_chat_message, also when the
\* flag is cleared between the fetch and the processing.
C30_FetchedEventsWritten ==
    \A k \in 0..(position - 1) :
        \/ \E i \in 1..Len(writes) : writes[i].offset = k
        \/ kpc \in {"got", "writing"} /\ message.offset = k

\* C18: shutdown is cooperative and completes: once the signal has cleared the
\* flag the consumer reaches the end of its finally block; a write that is in
\* progress is finished (its call returns and the loop goes on to the next
\* poll); the storage connection is closed only by the finally block, after
\* the loop.
C18_ShutdownCompletes ==
    /\ (~running) ~> (kpc = "stopped")
    /\ [](connection = "closed" => kpc = "stopped")
    /\ [][kpc = "writing" =>
            \/ kpc' = "writing"
            \/ kpc' = "next" /\ Len(writes') = Len(writes) + 1]_vars
    /\ [][(kpc # "cleanup" /\ kpc' = "cleanup") => kpc = "while" /\ ~running]_vars

\* the signal has arrived while a write was in progress
C18_Witness ==
    /\ kpc = "writing"
    /\ ~running
    /\ position < Len(topic)

\* C4: persistence is idempotent: however many times an event is delivered to
\* the consumer's write, chat_history holds one row for it at most.
C4_OneRowPerEvent ==
    \A i, j \in 1..Len(chat_history) :
        chat_history[i].event = chat_history[j].event => i = j


\* ======================================================================
\* rag/ticker_utils.py: extract_ticker_from_question. A question is a
\* sequence of characters; the regular expressions are computed on it.
\* ======================================================================

UpperLetters == <<"A", "B", "C", "D", "E", "F", "G", "H", "I", "J", "K", "L", "M",
                  "N", "O", "P", "Q", "R", "S", "T", "U", "V", "W", "X", "Y", "Z">>
LowerLetters == <<"a", "b", "c", "d", "e", "f", "g", "h", "i", "j", "k", "l", "m",
                  "n", "o", "p", "q", "r", "s", "t", "u", "v", "w", "x", "y", "z">>
Digits == {"0", "1", "2", "3", "4", "5", "6", "7", "8", "9"}

\* [A-Z]
IsUpper(c) == \E i \in 1..Len(UpperLetters) : UpperLetters[i] = c
IsLower(c) == \E i \in 1..Len(LowerLetters) : LowerLetters[i] = c
\* \w
IsWordChar(c) == IsUpper(c) \/ IsLower(c) \/ c \in Digits \/ c = "_"

\* question.lower(), line 60
ToLower(c) ==
    IF IsUpper(c)
    THEN LowerLetters[CHOOSE i \in 1..Len(UpperLetters) : UpperLetters[i] = c]
    ELSE c
Lower(q) == [i \in 1..Len(q) |-> ToLower(q[i])]

\* \b before the character at position i (i = Len(q) + 1: at the end)
WordBoundary(q, i) ==
    LET before == i > 1 /\ i - 1 <= Len(q) /\ IsWordChar(q[i - 1])
        after == i >= 1 /\ i <= Len(q) /\ IsWordChar(q[i])
    IN before # after

\* the length of the match of \b[A-Z]{1,5}\b that starts at i, 0 for none
\* ({1,5} is greedy: the longest length that lets the pattern match)
TickerMatchAt(q, i) ==
    LET lens == {n \in 1..5 :
                    /\ i + n - 1 <= Len(q)
                    /\ WordBoundary(q, i)
                    /\ \A j \in i..(i + n - 1) : IsUpper(q[j])
                    /\ WordBoundary(q, i + n)}
    IN IF lens = {} THEN 0 ELSE SetMax(lens)

\* re.findall(r'\b[A-Z]{1,5}\b', question), line 64: the matches from left
\* to right, each search starting where the match before it ended
RECURSIVE FindAllTickers(_, _)
FindAllTickers(q, i) ==
    IF i > Len(q) THEN <<>>
    ELSE LET n == TickerMatchAt(q, i)
         IN IF n = 0
            THEN FindAllTickers(q, i + 1)
            ELSE <<Slice(q, i - 1, i - 1 + n)>> \o FindAllTickers(q, i + n)

\* line 67
english_words ==
    { <<"I">>, <<"A">>, <<"U", "S", "A">>, <<"U", "S">>, <<"U", "K">>,
      <<"C", "E", "O">>, <<"C", "F", "O">>, <<"I", "P", "O">>, <<"E", "T", "F">>,
      <<"N", "Y", "S", "E">>, <<"N", "A", "S", "D", "A", "Q">>, <<"S", "E", "C">> }

\* line 68 with the stoplist not applied
IsCandidate_NoStoplist(t) == TRUE

\* line 68: t not in english_words
IsCandidate(t) == t \notin english_words

\* TICKER_KEYWORDS, lines 14-39, in the order of the dictionary: the entries
\* whose names the questions below can spell
TICKER_KEYWORDS ==
    << [company_name |-> <<"t", "e", "s", "l", "a">>, ticker |-> <<"T", "S", "L", "A">>],
       [company_name |-> <<"g", "o", "o", "g", "l", "e">>, ticker |-> <<"G", "O", "O", "G", "L">>],
       [company_name |-> <<"a", "m", "d">>, ticker |-> <<"A", "M", "D">>] >>

\* the pattern starts at position i of q
StartsAt(q, i, pattern) ==
    /\ i + Len(pattern) - 1 <= Len(q)
    /\ \A j \in 1..Len(pattern) : q[i + j - 1] = pattern[j]

\* re.search(r'\b' + re.escape(company_name) + r'\b', question_lower), line 76
SearchWord(q, name) ==
    \E i \in 1..Len(q) :
        /\ WordBoundary(q, i)
        /\ StartsAt(q, i, name)
        /\ WordBoundary(q, i + Len(name))

\* re.search(r'\b' + re.escape(company_name) + r"'s?\b", question_lower), line 82
SearchPossessive(q, name) ==
    \E i \in 1..Len(q) :
        /\ WordBoundary(q, i)
        /\ \/ /\ StartsAt(q, i, name \o <<"'", "s">>)
              /\ WordBoundary(q, i + Len(name) + 2)
           \/ /\ StartsAt(q, i, name \o <<"'">>)
              /\ WordBoundary(q, i + Len(name) + 1)

\* the loops of lines 74-78 and 81-85: the ticker of the first entry of the
\* table, from entry k on, that the search finds; None when there is none
RECURSIVE FirstKeyword(_, _, _)
FirstKeyword(q, k, possessive) ==
    IF k > Len(TICKER_KEYWORDS) THEN NoText
    ELSE IF (IF possessive
             THEN SearchPossessive(q, TICKER_KEYWORDS[k].company_name)
             ELSE SearchWord(q, TICKER_KEYWORDS[k].company_name))
    THEN TICKER_KEYWORDS[k].ticker
    ELSE FirstKeyword(q, k + 1, possessive)

\* extract_ticker_from_question, lines 42-89
extract_ticker_from_question(q) ==
    IF q = <<>> THEN NoText
    ELSE LET ticker_pattern == FindAllTickers(q, 1)
             ticker_candidates == SelectSeq(ticker_pattern, IsCandidate)
             question_lower == Lower(q)
         IN IF ticker_candidates # <<>>
            THEN ticker_candidates[1]
            ELSE IF FirstKeyword(question_lower, 1, FALSE) # NoText
            THEN FirstKeyword(question_lower, 1, FALSE)
            ELSE FirstKeyword(question_lower, 1, TRUE)

\* --- the questions asked: up to MaxWords words, each followed by a blank, a
\* possessive ending or a question mark
Words ==
    { <<"A", "A", "P", "L">>, <<"M", "S", "F", "T">>, <<"U", "S", "A">>,
      <<"T", "e", "s", "l", "a">>, <<"a", "m", "d">>,
      <<"G", "O", "O", "G", "L", "E">>, <<"t", "e", "s", "l", "a", "s">>,
      <<"t", "h", "e">> }
Endings == { <<" ">>, <<"'", "s", " ">>, <<"?">> }
Phrases == { w \o e : w \in Words, e \in Endings }

RECURSIVE Join(_)
Join(ps) == IF ps = <<>> THEN <<>> ELSE Head(ps) \o Join(Tail(ps))

Questions ==
    { Join(ps) : ps \in UNION { [1..n -> Phrases] : n \in 0..MaxWords } }

\* not yet computed
Pending == <<"pending">>

InitTicker ==
    /\ IdleChunker
    /\ IdleIndex
    /\ IdleEvents
    /\ question \in Questions
    /\ detected_ticker = Pending
    /\ response = [op |-> "none"]

ExtractTicker ==
    /\ detected_ticker = Pending
    /\ detected_ticker' = extract_ticker_from_question(question)
    /\ UNCHANGED <<question, response>>
    /\ UNCHANGED <<chunkVars, indexVars, busVars, consumerVars, publisherVars>>

NextTicker == ExtractTicker

SpecTicker == InitTicker /\ [][NextTicker]_vars

\* --- the rules of the extraction, read off the words of the question
\* the positions where a word (a maximal run of word characters) starts
WordStarts(q) ==
    {i \in 1..Len(q) : IsWordChar(q[i]) /\ (i = 1 \/ ~IsWordChar(q[i - 1]))}

\* the word that starts at i
WordAt(q, i) ==
    LET last == SetMax({j \in i..Len(q) : \A k \in i..j : IsWordChar(q[k])})
    IN [k \in 1..(last - i + 1) |-> q[i + k - 1]]

\* a bare uppercase token of 1 to 5 letters outside the stoplist
IsTickerToken(w) ==
    /\ Len(w) >= 1
    /\ Len(w) <= 5
    /\ \A k \in 1..Len(w) : IsUpper(w[k])
    /\ w \notin english_words

\* the symbols of the company names that are words of the question,
\* whatever their case
NamedSymbols(q) ==
    { TICKER_KEYWORDS[k].ticker : k \in
        { k \in 1..Len(TICKER_KEYWORDS) :
            \E i \in WordStarts(q) : Lower(WordAt(q, i)) = TICKER_KEYWORDS[k].company_name } }

\* C14: the extraction applies its rules in priority order: the leftmost bare
\* uppercase token of 1 to 5 letters outside the stoplist, if there is one;
\* else the symbol of a known company name that is a whole word of the
\* question, in any case; else none.
C14_TickerRulePriority ==
    detected_ticker # Pending =>
        LET starts == {i \in WordStarts(question) : IsTickerToken(WordAt(question, i))}
        IN IF starts # {}
           THEN detected_ticker =
                  WordAt(question, CHOOSE i \in starts : \A j \in starts : i <= j)
           ELSE IF NamedSymbols(question) # {}
           THEN detected_ticker \in NamedSymbols(question)
           ELSE detected_ticker = NoText

\* a question with a company name before a ticker token: the token is
\* returned, not the symbol of the name
C14_Witness ==
    /\ question = <<"T", "e", "s", "l", "a", "'", "s", " ", "M", "S", "F", "T", "?">>
    /\ detected_ticker = <<"M", "S", "F", "T">>


\* ======================================================================
\* rag/rag_app.py: the handlers of /api/query and /api/answer
\* ======================================================================

\* lines 265 and 323: data.get('top_k', 3); lines 272-274 and 331-333
DefaultTopK == 3
\* lines 271 and 330
TopKLimit == 10

\* lines 268-274 and 327-333: a top_k outside 1..10 becomes 3
ValidTopK(top_k) ==
    IF top_k < 1 \/ top_k > TopKLimit THEN DefaultTopK ELSE top_k

\* the ticker as the doc_name filter of the search (line 346)
AsDocName(ticker) ==
    IF ticker = <<"A", "A", "P", "L">> THEN "AAPL"
    ELSE IF ticker = <<"M", "S", "F", "T">> THEN "MSFT"
    ELSE IF ticker = <<"T", "S", "L", "A">> THEN "TSLA"
    ELSE IF ticker = <<"G", "O", "O", "G", "L">> THEN "GOOGL"
    ELSE IF ticker = <<"A", "M", "D">> THEN "AMD"
    ELSE "other"

\* the questions of the requests, and the top_k values they carry
ApiQuestions == { <<"A", "A", "P", "L", "?">>, <<"t", "h", "e", " ">> }
RequestTopK == {0} \cup (1..MaxTopK) \cup {TopKLimit + 1}

\* line 336, for each of the questions
DetectedTicker == [q \in ApiQuestions |-> extract_ticker_from_question(q)]

\* lines 256-260 and 316-320
BadRequest(op) ==
    [op |-> op, code |-> 400, status |-> "error", message |-> "query is required",
     has_query |-> FALSE, searched |-> FALSE, llm_called |-> FALSE,
     publish_called |-> FALSE]

\* lines 290-295 and 384-389: except Exception
ServerError(op, top_k_in) ==
    [op |-> op, code |-> 500, status |-> "error",
     has_query |-> TRUE, request_top_k |-> top_k_in, searched |-> TRUE,
     llm_called |-> FALSE, publish_called |-> FALSE]

\* lines 364-382 with a failed publish turned into an error response
ResponseAfterPublish_FailsWithPublish(answer, delivered) ==
    IF delivered
    THEN [code |-> 200, status |-> "success", data |-> answer]
    ELSE [code |-> 500, status |-> "error", data |-> answer]

\* lines 364-382: the result of the publish is not read, an exception of it
\* is logged, and the answer is returned
ResponseAfterPublish(answer, delivered) ==
    [code |-> 200, status |-> "success", data |-> answer]

\* lines 366-375 with the detected ticker left out of the call
PublishArgs_NoTicker(q, ticker, answer) ==
    [query |-> q, detected_ticker |-> NoText, answer |-> answer.answer]

\* lines 366-375: what the handler passes to publish_chat_message
PublishArgs(q, ticker, answer) ==
    [query |-> q, detected_ticker |-> ticker, answer |-> answer.answer]

\* generate_answer() of rag_app.py (298-389), the handler of /api/answer.
\*   has_query: the body has 'query'; top_k_in: its top_k; db_ok, read_ok,
\*   llm_ok: as for RAGRetriever.generate_answer; outcome: of the send
ApiAnswer(has_query, q, top_k_in, db_ok, read_ok, llm_ok, outcome) ==
    /\ ppc = "ready"
    /\ response.op = "none"
    /\ published < MaxEvents
    /\ IF ~has_query
       THEN /\ response' = BadRequest("answer")
            /\ UNCHANGED <<question, detected_ticker, busVars, send_attempts, publish_result>>
       ELSE LET top_k == ValidTopK(top_k_in)
                ticker == DetectedTicker[q]
                doc_name == IF ticker # NoText THEN AsDocName(ticker) ELSE None
            IN /\ question' = q
               /\ detected_ticker' = ticker
               /\ IF ~db_ok
                  THEN /\ response' = ServerError("answer", top_k_in)
                       /\ UNCHANGED <<busVars, send_attempts, publish_result>>
                  ELSE \E found \in SearchResults(document_embeddings, Embed(q),
                                                   NoStockId, doc_name, top_k) :
                         IF RehydrateRaises(found, pdf_storage, read_ok)
                         THEN /\ response' = ServerError("answer", top_k_in)
                              /\ UNCHANGED <<busVars, send_attempts, publish_result>>
                         ELSE LET answer == AnswerOf(q, found, pdf_storage, read_ok, llm_ok)
                                  delivered == PublishReturn(producer, outcome)
                              IN /\ published' = published + 1
                                 /\ topic' = TopicAfterPublish(topic, producer,
                                                [event |-> published + 1], outcome)
                                 /\ send_attempts' = IF SendAttempted(producer)
                                                     THEN send_attempts + 1
                                                     ELSE send_attempts
                                 /\ publish_result' = delivered
                                 /\ UNCHANGED producer
                                 /\ response' =
                                      [op |-> "answer", has_query |-> TRUE,
                                       request_top_k |-> top_k_in, top_k |-> top_k,
                                       searched |-> TRUE,
                                       llm_called |-> answer.llm_called,
                                       publish_called |-> TRUE,
                                       delivered |-> delivered,
                                       event |-> PublishArgs(q, ticker, answer),
                                       answer |-> answer]
                                      @@ ResponseAfterPublish(answer, delivered)
    /\ UNCHANGED <<ppc, connect_attempts>>
    /\ UNCHANGED <<chunkVars, indexVars, consumerVars>>

\* query_documents() (241-295), the handler of /api/query
ApiQuery(has_query, q, stock_id, doc_name, top_k_in, retrieve_text, db_ok, read_ok) ==
    /\ ppc = "ready"
    /\ response.op = "none"
    /\ IF ~has_query
       THEN /\ response' = BadRequest("query")
            /\ UNCHANGED question
       ELSE LET top_k == ValidTopK(top_k_in)
            IN /\ question' = q
               /\ IF ~db_ok
                  THEN response' = ServerError("query", top_k_in)
                  ELSE \E found \in SearchResults(document_embeddings, Embed(q),
                                                   stock_id, doc_name, top_k) :
                         response' =
                           IF retrieve_text /\ RehydrateRaises(found, pdf_storage, read_ok)
                           THEN ServerError("query", top_k_in)
                           ELSE [op |-> "query", code |-> 200, status |-> "success",
                                 has_query |-> TRUE,
                                 request_top_k |-> top_k_in, top_k |-> top_k,
                                 searched |-> TRUE, llm_called |-> FALSE,
                                 publish_called |-> FALSE,
                                 data |-> [results_count |-> Len(found),
                                           results |-> QueryResults(found, pdf_storage,
                                                                    retrieve_text, read_ok)]]
    /\ UNCHANGED <<detected_ticker, busVars, publisherVars>>
    /\ UNCHANGED <<chunkVars, indexVars, consumerVars>>

\* the consumer is another process: not started here
IdleConsumer ==
    /\ position = 0
    /\ committed = 0
    /\ chat_history = <<>>
    /\ connection = "open"
    /\ running = TRUE
    /\ kpc = "idle"
    /\ message = NoMessage
    /\ message_count = 0
    /\ writes = <<>>

\* lines 50-56: the services of the module, constructed over a database that
\* is empty or holds one document
InitApi ==
    /\ IdleChunker
    /\ \/ IdleIndex
       \/ \E f \in PdfFiles, copy_ok \in BOOLEAN :
             UploadedBefore(f, 1, "A.pdf", copy_ok)
    /\ IdleApi
    /\ IdleConsumer
    /\ topic = <<>>
    /\ published = 0
    /\ Constructed

\* the response is sent; requests are served one after the other
Respond ==
    /\ response.op # "none"
    /\ response' = [op |-> "none"]
    /\ question' = <<>>
    /\ detected_ticker' = <<>>
    /\ UNCHANGED <<chunkVars, indexVars, busVars, consumerVars, publisherVars>>

\* the inputs that the handler does not reach are not varied
NextRequest ==
    \/ \E has_query \in BOOLEAN :
       \E q \in IF has_query THEN ApiQuestions ELSE {<<>>},
          top_k_in \in IF has_query THEN RequestTopK ELSE {DefaultTopK},
          db_ok \in IF has_query THEN BOOLEAN ELSE {TRUE} :
       \E read_ok \in IF has_query /\ db_ok THEN BOOLEAN ELSE {TRUE},
          llm_ok \in IF has_query /\ db_ok THEN BOOLEAN ELSE {TRUE},
          outcome \in IF has_query /\ db_ok THEN SendOutcomes ELSE {"acked"} :
          ApiAnswer(has_query, q, top_k_in, db_ok, read_ok, llm_ok, outcome)
    \/ \E has_query \in BOOLEAN :
       \E q \in IF has_query THEN ApiQuestions ELSE {<<>>},
          filter \in IF has_query THEN {<<NoStockId, None>>} \cup Documents
                                  ELSE {<<NoStockId, None>>},
          top_k_in \in IF has_query THEN RequestTopK ELSE {DefaultTopK},
          db_ok \in IF has_query THEN BOOLEAN ELSE {TRUE} :
       \E retrieve_text \in IF has_query /\ db_ok THEN BOOLEAN ELSE {FALSE} :
       \E read_ok \in IF retrieve_text THEN BOOLEAN ELSE {TRUE} :
          ApiQuery(has_query, q, filter[1], filter[2], top_k_in, retrieve_text,
                   db_ok, read_ok)
    \/ Respond

NextApi == NextRequest

SpecApi == InitApi /\ [][NextApi]_vars

\* C15: a failed publish never changes or fails the response of /api/answer:
\* whenever the retriever returned an answer the response is 200 with that
\* answer, whether the event was delivered or not, and publish_chat_message
\* returns a boolean.
C15_PublishFailureKeepsAnswer ==
    (response.op = "answer" /\ response.publish_called) =>
        /\ response.code = 200
        /\ response.status = "success"
        /\ response.data = response.answer
        /\ response.delivered \in BOOLEAN
        /\ publish_result = response.delivered

\* an answer over retrieved documents whose event the producer failed to send
C15_Witness ==
    /\ response.op = "answer"
    /\ response.publish_called
    /\ ~response.delivered
    /\ producer # None
    /\ response.answer.found >= 1
    /\ response.code = 200

\* C19: a query or answer request whose top_k is outside 1..10 is rejected
\* with a client error and has no side effect: no search, no completion call,
\* no publish.
C19_TopKOutOfRangeRejected ==
    (/\ response.op \in {"answer", "query"}
     /\ response.has_query
     /\ (response.request_top_k < 1 \/ response.request_top_k > 10)) =>
        /\ response.code = 400
        /\ ~response.searched
        /\ ~response.llm_called
        /\ ~response.publish_called

\* C22: every /api/answer request that returns an answer, whether the
\* completion answered, no document was found or the completion failed, makes
\* one call of publish_chat_message, with the query, the detected ticker and
\* the answer text of that request; a request without a query, or one that
\* ends in an error, makes none.
C22_OnePublishCallPerAnswer ==
    /\ []((response.op = "answer" /\ response.code = 200) =>
            /\ response.publish_called
            /\ response.event.query = question
            /\ response.event.detected_ticker = detected_ticker
            /\ response.event.answer = response.data.answer)
    /\ []((response.op = "answer" /\ response.code # 200) => ~response.publish_called)
    /\ [][(response.op = "none" /\ response'.op = "answer") =>
            IF response'.code = 200
            THEN published' = published + 1
            ELSE /\ published' = published
                 /\ topic' = topic
                 /\ send_attempts' = send_attempts]_vars

\* the second answered request: a question with a ticker no document is
\* named after, answered with the fixed text and published with the ticker
C22_Witness ==
    /\ response.op = "answer"
    /\ response.code = 200
    /\ published = 2
    /\ response.answer.found = 0
    /\ response.event.detected_ticker = <<"A", "A", "P", "L">>
    /\ response.event.answer = "No relevant documents found for this query."

\* ----------------------------------------------------------------------
\* The publisher from its construction on, serving /api/answer
\* ----------------------------------------------------------------------

\* ChatMessageProducer.__init__ (16-27): producer = None, then _connect()
InitPublisher ==
    /\ IdleChunker
    /\ IdleIndex
    /\ IdleApi
    /\ IdleConsumer
    /\ topic = <<>>
    /\ published = 0
    /\ producer = None
    /\ ppc = "connect"
    /\ connect_attempts = 0
    /\ send_attempts = 0
    /\ publish_result = FALSE

NextPublisher ==
    \/ \E ok \in BOOLEAN : ConnectAttempt(ok)
    \/ NextRequest

SpecPublisher == InitPublisher /\ [][NextPublisher]_vars

\* C16: the startup connection of the publisher makes at most max_retries (5)
\* attempts and then stops; when all of them failed the publisher is disabled:
\* every publish returns False, no send is attempted, and no connection
\* attempt is made again.
C16_BoundedConnectThenDisabled ==
    /\ [](connect_attempts <= 5)
    /\ []((ppc = "ready" /\ producer = None) =>
            /\ connect_attempts = 5
            /\ send_attempts = 0
            /\ topic = <<>>
            /\ published > 0 => publish_result = FALSE)
    /\ [][ppc = "ready" =>
            /\ ppc' = "ready"
            /\ connect_attempts' = connect_attempts
            /\ producer' = producer]_vars

\* a disabled publisher that has been asked to publish twice
C16_Witness ==
    /\ ppc = "ready"
    /\ producer = None
    /\ connect_attempts = 5
    /\ published = 2

====
